---- MODULE Spec2Model ----
(***************************************************************************)
(* Model of src/src/App.js: the App component of the PDF reader frontend.  *)
(* State is the component's useState cells plus the browser environment it *)
(* talks to: the object URLs it created, and the fetch requests that have  *)
(* been dispatched and whose continuation has not yet run.                 *)
(*                                                                         *)
(* A JavaScript value that may be null/undefined is a sequence of length   *)
(* at most one: <<>> is null/undefined, <<v>> is the value v.              *)
(* A string the code inspects character by character (inputValue) is a     *)
(* sequence of one-character strings.                                      *)
(***************************************************************************)
EXTENDS Integers, Sequences, FiniteSets, TLC

VARIABLES file, fileUrl, messages, inputValue, isLoading, isProcessing,
          objectUrls, uploads, chats, nChat, last

vars == <<file, fileUrl, messages, inputValue, isLoading, isProcessing,
          objectUrls, uploads, chats, nChat, last>>

\* ------------------------------------------------------------------ bounds
\* number of fetch requests dispatched in a run (uploads and chats together)
MaxRequests == 3

\* ----------------------------------------------------------- JS optionals
None == <<>>
Some(v) == <<v>>

\* ------------------------------------------------------------- input sets
PDF == "application/pdf"

\* event.target.files[0]: undefined, a PDF, or a file of another type
Candidates ==
  { None,
    Some([name |-> "a.pdf", type |-> PDF]),
    Some([name |-> "notes.txt", type |-> "text/plain"]) }

\* values the textarea's onChange can put into inputValue
InputValues ==
  { <<>>, <<" ">>, <<" ", "a">> }

\* String.prototype.trim: strip leading and trailing white space
RECURSIVE TrimLeft(_)
TrimLeft(s) ==
  IF s # <<>> /\ Head(s) = " " THEN TrimLeft(Tail(s)) ELSE s

RECURSIVE TrimRight(_)
TrimRight(s) ==
  IF s # <<>> /\ s[Len(s)] = " " THEN TrimRight(SubSeq(s, 1, Len(s) - 1)) ELSE s

\* faulty variant: the input is tested as typed
TrimNothing(s) == s

Trim(s) == TrimRight(TrimLeft(s))

\* ------------------------------------------------- responses of the server
\* JSON bodies of POST /api/upload that response.json() can produce
UploadBodies ==
  { [error |-> None, totalPages |-> Some(10), chunksCreated |-> Some(42),
     searchMethod |-> None, warning |-> Some("scanned pages skipped")],
    [error |-> Some("File too large"), totalPages |-> None, chunksCreated |-> None,
     searchMethod |-> None, warning |-> None] }

\* outcome of fetch + response.json(): net = FALSE is a rejected fetch;
\* body = None is a body response.json() throws on
NoUploadBody == None
UploadResponses ==
  { [net |-> FALSE, ok |-> FALSE, body |-> NoUploadBody] }
  \cup { [net |-> TRUE, ok |-> o, body |-> b] :
           o \in BOOLEAN, b \in {NoUploadBody} \cup { Some(x) : x \in UploadBodies } }

ChatBodies ==
  { [response |-> "r", citations |-> None],
    [response |-> "r", citations |-> Some(<<[page |-> 3]>>)] }

\* the body of a non-success chat response is never read (line 125)
ChatResponses ==
  { [net |-> FALSE, ok |-> FALSE, body |-> None],
    [net |-> TRUE, ok |-> FALSE, body |-> None] }
  \cup { [net |-> TRUE, ok |-> TRUE, body |-> b] :
           b \in {None} \cup { Some(x) : x \in ChatBodies } }

\* error.message of a rejected fetch and of a failed response.json()
NetworkErrorMessage == "Failed to fetch"
ParseErrorMessage == "Unexpected end of JSON input"

\* ------------------------------------------------------ transcript entries
\* Every entry has the same fields; a field the object literal leaves out
\* is None.  `of` is the id of the File the handler that built the entry
\* held in its closure (selectedFile, resp. file) and `req` the number of
\* the chat request the entry belongs to (0 for a system entry); the two
\* stand for the identity the timestamp gives an entry and are read by no
\* handler.
Entry(t, c, p, e, cit, d, q) ==
  [type |-> t, content |-> c, isProcessing |-> p, isError |-> e,
   citations |-> cit, of |-> d, req |-> q]

ProcessingMessage(f) ==
  Entry("system", <<"Processing", f.name>>, Some(TRUE), None, None, f.id, 0)

\* `${x}` of a value that may be undefined
Interp(m) == IF m = None THEN "undefined" ELSE ToString(m[1])

\* a || b on strings that may be undefined or empty
OrElse(m, d) == IF m = None \/ m = Some("") THEN d ELSE m[1]

SuccessMessage(f, result) ==
  Entry("system",
        <<"Processed", f.name, Interp(result.totalPages), Interp(result.chunksCreated),
          OrElse(result.searchMethod, "Semantic + Keyword"),
          IF result.warning = None \/ result.warning = Some("") THEN ""
          ELSE result.warning[1]>>,
        Some(FALSE), None, None, f.id, 0)

FailureMessage(f, msg) ==
  Entry("system", <<"Failed to process PDF", msg>>, Some(FALSE), Some(TRUE), None, f.id, 0)

UserMessage(text, f, q) ==
  Entry("user", text, None, None, None, f.id, q)

BotMessage(result, d, q) ==
  Entry("bot", <<result.response>>, None, None,
        Some(IF result.citations = None THEN <<>> ELSE result.citations[1]), d, q)

Apology == "Sorry, I encountered an error while processing your question. Please try again."

ErrorBotMessage(d, q) ==
  Entry("bot", <<Apology>>, None, None, None, d, q)

\* how the render reads the optional fields of an entry
IsError(m) == m.isError = Some(TRUE)
ShowsProcessing(m) == m.isProcessing = Some(TRUE)
Citations(m) == IF m.citations = None THEN <<>> ELSE m.citations[1]

\* --------------------------------------------------------- the environment
\* object URLs: created ones, each with the number of revokeObjectURL calls
LiveUrls == { u \in DOMAIN objectUrls : objectUrls[u] = 0 }

CreateObjectURL == Cardinality(DOMAIN objectUrls) + 1

\* fetch requests dispatched so far: one per object URL, one per chat
Dispatched == Cardinality(DOMAIN objectUrls) + nChat

RevokeObjectURL(u) ==
  IF u # None /\ u[1] \in DOMAIN objectUrls
  THEN [objectUrls EXCEPT ![u[1]] = @ + 1]
  ELSE objectUrls

\* `last` records which handler ran most recently and the inputs it read:
\* the candidate file and the alert it raised, the inputValue and fileUrl it
\* saw, the request that settled and the response it settled with.
NoEvent == [op |-> "none", cand |-> None, alert |-> None, question |-> <<>>,
            url |-> None, doc |-> 0, chat |-> 0, uresp |-> None, cresp |-> None]

Init ==
  /\ file = None
  /\ fileUrl = None
  /\ messages = <<>>
  /\ inputValue = <<>>
  /\ isLoading = FALSE
  /\ isProcessing = FALSE
  /\ objectUrls = <<>>
  /\ uploads = {}
  /\ chats = {}
  /\ nChat = 0
  /\ last = NoEvent

\* ------------------------------------------------------------- the handlers
\* faulty variant: any file that was chosen passes
ValidCandidateAnyType(cand) == cand # None

\* the check of line 24, negated
ValidCandidate(cand) == cand # None /\ cand[1].type = PDF

\* handleFileUpload up to the first await (lines 22-52)
HandleFileUpload(cand) ==
  /\ IF ~ValidCandidate(cand)
     THEN \* alert('Please select a PDF file'); return
          /\ last' = [NoEvent EXCEPT !.op = "handleFileUpload", !.cand = cand,
                                     !.alert = Some("Please select a PDF file")]
          /\ UNCHANGED <<file, fileUrl, messages, inputValue, isLoading, isProcessing,
                      objectUrls, uploads, chats, nChat>>
     ELSE /\ Dispatched < MaxRequests
          /\ last' = [NoEvent EXCEPT !.op = "handleFileUpload", !.cand = cand]
          /\ LET id == CreateObjectURL
                 selectedFile == [id |-> id, name |-> cand[1].name, type |-> cand[1].type]
             IN /\ file' = Some(selectedFile)
                /\ isProcessing' = TRUE
                /\ objectUrls' = Append(objectUrls, 0)
                /\ fileUrl' = Some(id)
                /\ messages' = <<ProcessingMessage(selectedFile)>>
                /\ uploads' = uploads \cup {selectedFile}
          /\ UNCHANGED <<inputValue, isLoading, chats, nChat>>

\* what the try block of handleFileUpload puts into the transcript
UploadOutcome(selectedFile, resp) ==
  IF ~resp.net THEN FailureMessage(selectedFile, NetworkErrorMessage)
  ELSE IF resp.body = None THEN FailureMessage(selectedFile, ParseErrorMessage)
  ELSE IF ~resp.ok
       THEN FailureMessage(selectedFile, OrElse(resp.body[1].error, "Failed to upload file"))
  ELSE SuccessMessage(selectedFile, resp.body[1])

\* faulty variant: the flag is cleared at the end of the try block instead
\* of in a finally block
UploadSettledNoFinally(selectedFile, resp) ==
  /\ selectedFile \in uploads
  /\ uploads' = uploads \ {selectedFile}
  /\ messages' = <<UploadOutcome(selectedFile, resp)>>
  /\ isProcessing' = IF resp.net /\ resp.ok /\ resp.body # None THEN FALSE
                     ELSE isProcessing
  /\ last' = [NoEvent EXCEPT !.op = "uploadSettled", !.doc = selectedFile.id,
                             !.uresp = Some(resp)]
  /\ UNCHANGED <<file, fileUrl, inputValue, isLoading, objectUrls, chats, nChat>>

\* handleFileUpload after its awaits (lines 54-97)
UploadSettled(selectedFile, resp) ==
  /\ selectedFile \in uploads
  /\ uploads' = uploads \ {selectedFile}
  /\ messages' = <<UploadOutcome(selectedFile, resp)>>
  /\ isProcessing' = FALSE
  /\ last' = [NoEvent EXCEPT !.op = "uploadSettled", !.doc = selectedFile.id,
                             !.uresp = Some(resp)]
  /\ UNCHANGED <<file, fileUrl, inputValue, isLoading, objectUrls, chats, nChat>>

\* faulty variant: the object URL is dropped without being revoked
ChangeFileNoRevoke ==
  /\ file' = None
  /\ fileUrl' = None
  /\ messages' = <<>>
  /\ last' = [NoEvent EXCEPT !.op = "changeFile", !.url = fileUrl]
  /\ UNCHANGED <<inputValue, isLoading, isProcessing, objectUrls, uploads, chats, nChat>>

\* the Change File button's onClick (lines 226-231)
ChangeFile ==
  /\ file' = None
  /\ fileUrl' = None
  /\ messages' = <<>>
  /\ objectUrls' = RevokeObjectURL(fileUrl)
  /\ last' = [NoEvent EXCEPT !.op = "changeFile", !.url = fileUrl]
  /\ UNCHANGED <<inputValue, isLoading, isProcessing, uploads, chats, nChat>>

\* the textarea's onChange (line 303)
SetInputValue(v) ==
  /\ v # inputValue
  /\ inputValue' = v
  /\ last' = [NoEvent EXCEPT !.op = "setInputValue"]
  /\ UNCHANGED <<file, fileUrl, messages, isLoading, isProcessing,
                 objectUrls, uploads, chats, nChat>>

\* handleSendMessage up to the await (lines 100-123)
HandleSendMessage ==
  /\ last' = [NoEvent EXCEPT !.op = "handleSendMessage", !.question = inputValue]
  /\ IF Trim(inputValue) = <<>> \/ file = None
     THEN UNCHANGED <<file, fileUrl, messages, inputValue, isLoading, isProcessing,
                      objectUrls, uploads, chats, nChat>>
     ELSE /\ Dispatched < MaxRequests
          /\ messages' = Append(messages, UserMessage(inputValue, file[1], nChat + 1))
          /\ inputValue' = <<>>
          /\ isLoading' = TRUE
          /\ nChat' = nChat + 1
          /\ chats' = chats \cup {[id |-> nChat + 1, message |-> inputValue,
                                   fileName |-> file[1].name, doc |-> file[1].id]}
          /\ UNCHANGED <<file, fileUrl, isProcessing, objectUrls, uploads>>

\* error.message of the error the catch block of handleSendMessage receives
ChatErrorMessage(resp) ==
  IF ~resp.net THEN NetworkErrorMessage
  ELSE IF ~resp.ok THEN "Failed to get response"
  ELSE ParseErrorMessage

\* faulty variant: the catch block shows error.message, as the upload's does
ChatOutcomeShowsError(c, resp) ==
  IF resp.net /\ resp.ok /\ resp.body # None
  THEN BotMessage(resp.body[1], c.doc, c.id)
  ELSE Entry("bot", <<ChatErrorMessage(resp)>>, None, None, None, c.doc, c.id)

\* what the try block of handleSendMessage appends
ChatOutcome(c, resp) ==
  IF resp.net /\ resp.ok /\ resp.body # None
  THEN BotMessage(resp.body[1], c.doc, c.id)
  ELSE ErrorBotMessage(c.doc, c.id)

\* handleSendMessage after its awaits (lines 125-149)
ChatSettled(c, resp) ==
  /\ c \in chats
  /\ chats' = chats \ {c}
  /\ messages' = Append(messages, ChatOutcome(c, resp))
  /\ isLoading' = FALSE
  /\ last' = [NoEvent EXCEPT !.op = "chatSettled", !.doc = c.doc, !.chat = c.id,
                             !.question = c.message, !.cresp = Some(resp)]
  /\ UNCHANGED <<file, fileUrl, inputValue, isProcessing, objectUrls, uploads, nChat>>

\* ------------------------------------------------------------ the render
\* faulty variant: the file input stays mounted while a file is selected
FileInputAlwaysMounted == TRUE

\* faulty variant: the upload card is also shown while a file is processed
FileInputMountedWhileProcessing == file = None \/ isProcessing

\* {!file && ...}: the upload card with the file input (line 182)
FileInputMounted == file = None
\* {file && ...}: the document pane with Change File, and the chat pane (line 217)
MainInterfaceMounted == file # None
\* faulty variant: the button stays enabled while a file is processed
ChooseAlwaysEnabled == TRUE

\* the Choose PDF File button, which opens the file dialog (line 198)
ChooseEnabled == ~isProcessing
\* faulty variant: the chat controls are disabled by isProcessing alone
ChatInputEnabledWhileLoading == ~isProcessing

\* the textarea; the send button needs a non-blank inputValue besides, which
\* handleSendMessage checks again (lines 308, 312)
ChatInputEnabled == ~(isLoading \/ isProcessing)

\* The lifecycle state the render shows for the document: none selected,
\* being processed, processed with an error entry, processed.
ProcessingState ==
  IF file = None THEN "Empty"
  ELSE IF isProcessing THEN "Uploading"
  ELSE IF \E i \in 1..Len(messages) : IsError(messages[i]) THEN "Failed"
  ELSE "Ready"

\* -------------------------------------------------------- specifications
\* a pending fetch settles at any time
Settle ==
  \/ \E u \in uploads, r \in UploadResponses : UploadSettled(u, r)
  \/ \E c \in chats, r \in ChatResponses : ChatSettled(c, r)

\* Spec: the component as React mounts it.  A handler runs when the element
\* it is attached to is mounted; the disabled attributes are not relied on.
Next ==
  \/ \E cand \in Candidates : FileInputMounted /\ HandleFileUpload(cand)
  \/ MainInterfaceMounted /\ ChangeFile
  \/ \E v \in InputValues : MainInterfaceMounted /\ SetInputValue(v)
  \/ MainInterfaceMounted /\ HandleSendMessage
  \/ Settle

Spec == Init /\ [][Next]_vars

\* SpecFair: Spec, with every dispatched fetch settling at some time (it
\* resolves or rejects) and its continuation then being run by the event
\* loop; with which response it settles is left open.
Fairness ==
  \A i \in 1..MaxRequests :
    /\ WF_vars(\E u \in uploads, r \in UploadResponses : u.id = i /\ UploadSettled(u, r))
    /\ WF_vars(\E c \in chats, r \in ChatResponses : c.id = i /\ ChatSettled(c, r))

SpecFair == Spec /\ Fairness

\* SpecUI: the component driven through its controls only; a disabled
\* control delivers no event.
NextUI ==
  \/ \E cand \in Candidates : FileInputMounted /\ ChooseEnabled /\ HandleFileUpload(cand)
  \/ MainInterfaceMounted /\ ChangeFile
  \/ \E v \in InputValues : MainInterfaceMounted /\ ChatInputEnabled /\ SetInputValue(v)
  \/ MainInterfaceMounted /\ ChatInputEnabled /\ HandleSendMessage
  \/ Settle

SpecUI == Init /\ [][NextUI]_vars

\* SpecDirect: the handlers called as functions, in any state (the
\* operations select, reset and ask of the dispatcher contract).
NextDirect ==
  \/ \E cand \in Candidates : HandleFileUpload(cand)
  \/ ChangeFile
  \/ \E v \in InputValues : SetInputValue(v)
  \/ HandleSendMessage
  \/ Settle

SpecDirect == Init /\ [][NextDirect]_vars

\* ------------------------------------------------------------ the claims
Range(q) == { q[i] : i \in 1..Len(q) }
IsBlank(q) == \A i \in 1..Len(q) : q[i] = " "
SystemEntries == { i \in 1..Len(messages) : messages[i].type = "system" }

\* the fetch was rejected, the status was not a success, or the body of a
\* success response did not parse
UploadFailed(resp) == ~resp.net \/ ~resp.ok \/ resp.body = None
UploadSucceeded(resp) == resp.net /\ resp.ok /\ resp.body # None
ChatFailed(resp) == ~resp.net \/ ~resp.ok \/ resp.body = None
ChatSucceeded(resp) == resp.net /\ resp.ok /\ resp.body # None

\* C1: a handleSendMessage call issued while an earlier accepted call's chat
\* request is unresolved appends no entry and dispatches no chat request.
C1_OnlyFirstAskAccepted ==
  [][ (last'.op = "handleSendMessage" /\ chats # {})
        => (messages' = messages /\ chats' = chats) ]_vars

\* C2: after an upload request resolves successfully the Transcript ends with
\* exactly one System entry that is neither processing nor an error, the
\* ProcessingState is Ready and the processing flag is false, for every
\* upload, also one whose Document was reset or replaced meanwhile.
C2_SuccessfulUploadIsReady ==
  (last.op = "uploadSettled" /\ UploadSucceeded(last.uresp[1]))
    => /\ messages # <<>>
       /\ SystemEntries = {Len(messages)}
       /\ ~ShowsProcessing(messages[Len(messages)])
       /\ ~IsError(messages[Len(messages)])
       /\ ProcessingState = "Ready"
       /\ ~isProcessing

\* C3: after an upload request fails the Transcript ends with exactly one
\* System entry with isError true, the ProcessingState is Failed, the
\* processing flag is false, and the Document is still selected.
C3_FailedUploadIsFailed ==
  (last.op = "uploadSettled" /\ UploadFailed(last.uresp[1]))
    => /\ messages # <<>>
       /\ SystemEntries = {Len(messages)}
       /\ IsError(messages[Len(messages)])
       /\ ProcessingState = "Failed"
       /\ ~isProcessing
       /\ file # None

\* C4: while a Document is selected, every Transcript entry belongs to it:
\* none was built by a handler that held an earlier Document.
C4_NoEntryOfEarlierDocument ==
  file # None => \A i \in 1..Len(messages) : messages[i].of = file[1].id

\* C5: Change File always yields no Document, ProcessingState Empty and an
\* empty Transcript, and revokes the object URL that was held exactly once:
\* a selected Document always holds a live object URL, and no object URL is
\* ever revoked twice.
C5_ResetClearsAndReleasesOnce ==
  /\ \A u \in DOMAIN objectUrls : objectUrls[u] <= 1
  /\ file # None => fileUrl # None /\ fileUrl[1] \in LiveUrls
  /\ last.op = "changeFile"
       => /\ file = None
          /\ fileUrl = None
          /\ ProcessingState = "Empty"
          /\ messages = <<>>
          /\ last.url # None => objectUrls[last.url[1]] = 1

\* C5 witness: Change File ran while an upload and a chat were pending and
\* revoked the held object URL.
C5_Witness ==
  /\ last.op = "changeFile"
  /\ last.url = Some(1)
  /\ objectUrls[1] = 1
  /\ uploads # {}
  /\ chats # {}

\* C6: at most one object URL is live, and a live one is the one held in
\* fileUrl for the selected Document.
C6_AtMostOneLiveHandle ==
  /\ Cardinality(LiveUrls) <= 1
  /\ \A u \in LiveUrls : fileUrl = Some(u) /\ file # None /\ file[1].id = u

\* C6 witness: a second Document is selected; the first one's object URL has
\* been revoked and the second one's is live.
C6_Witness ==
  /\ Len(objectUrls) = 2
  /\ objectUrls[1] = 1
  /\ LiveUrls = {2}

\* C7: when the response of an accepted ask(q) that succeeded is handled, the
\* Transcript ends with User{q} immediately followed by Bot{response,
\* citations}, citations being the returned list or the empty list.
C7_AnswerFollowsQuestion ==
  (last.op = "chatSettled" /\ ChatSucceeded(last.cresp[1]))
    => LET n == Len(messages)
           body == last.cresp[1].body[1]
       IN /\ n >= 2
          /\ messages[n - 1].type = "user"
          /\ messages[n - 1].content = last.question
          /\ messages[n - 1].req = last.chat
          /\ messages[n].type = "bot"
          /\ messages[n].content = <<body.response>>
          /\ Citations(messages[n]) =
               (IF body.citations = None THEN <<>> ELSE body.citations[1])

\* C8: handleFileUpload with no candidate or a candidate that is not a PDF
\* changes no state, dispatches no upload and raises the validation alert.
C8_RejectedSelectChangesNothing ==
  [][ (last'.op = "handleFileUpload"
        /\ (last'.cand = None \/ last'.cand[1].type # PDF))
        => /\ UNCHANGED <<file, fileUrl, messages, inputValue, isLoading,
                          isProcessing, objectUrls, uploads, chats, nChat>>
           /\ last'.alert # None ]_vars

\* C8 witness: a text file was rejected while a Document with a transcript
\* was selected.
C8_Witness ==
  /\ last.op = "handleFileUpload"
  /\ last.cand # None
  /\ last.cand[1].type # PDF
  /\ last.alert # None
  /\ file # None
  /\ Len(messages) >= 2

\* C9: handleSendMessage with a blank inputValue or with no Document selected
\* appends no entry, does not set isLoading and dispatches no chat request.
C9_BlankOrNoDocumentIsNoOp ==
  [][ (last'.op = "handleSendMessage"
        /\ (IsBlank(inputValue) \/ file = None))
        => UNCHANGED <<messages, isLoading, chats, nChat, inputValue>> ]_vars

\* C9 witness: a non-blank question was sent with no Document selected and
\* nothing was dispatched.
C9_Witness ==
  /\ last.op = "handleSendMessage"
  /\ ~IsBlank(last.question)
  /\ file = None
  /\ chats = {}
  /\ ~isLoading

\* C10: an accepted ask appends exactly one User entry; when its request
\* fails, exactly one Bot entry is appended, with the fixed apology, no
\* citations and without the text of the error.
C10_FailedChatApologises ==
  [][ /\ (last'.op = "handleSendMessage" /\ ~IsBlank(inputValue) /\ file # None)
         => /\ Len(messages') = Len(messages) + 1
            /\ SubSeq(messages', 1, Len(messages)) = messages
            /\ messages'[Len(messages')].type = "user"
            /\ messages'[Len(messages')].content = inputValue
      /\ (last'.op = "chatSettled" /\ ChatFailed(last'.cresp[1]))
         => /\ Len(messages') = Len(messages) + 1
            /\ SubSeq(messages', 1, Len(messages)) = messages
            /\ messages'[Len(messages')].type = "bot"
            /\ messages'[Len(messages')].content = <<Apology>>
            /\ Citations(messages'[Len(messages')]) = <<>>
            /\ ChatErrorMessage(last'.cresp[1])
                 \notin Range(messages'[Len(messages')].content) ]_vars

\* C10 witness: the chat endpoint answered with a non-success status; the
\* Transcript holds the question and then the apology.
C10_Witness ==
  /\ last.op = "chatSettled"
  /\ last.cresp = Some([net |-> TRUE, ok |-> FALSE, body |-> None])
  /\ Len(messages) = 3
  /\ messages[2].type = "user"
  /\ messages[2].req = last.chat
  /\ messages[3].type = "bot"
  /\ messages[3].content = <<Apology>>

\* q is p with some entries left out, the others in the same order
RECURSIVE IsSubsequence(_, _)
IsSubsequence(p, q) ==
  IF p = <<>> THEN TRUE
  ELSE IF q = <<>> THEN FALSE
  ELSE IF Head(p) = Head(q) THEN IsSubsequence(Tail(p), Tail(q))
  ELSE IsSubsequence(p, Tail(q))

\* the processing placeholder of the upload of document d
IsPlaceholderOf(m, d) == m.type = "system" /\ ShowsProcessing(m) /\ m.of = d

\* C11: when an upload resolves, every entry that was in the Transcript just
\* before, other than that upload's processing placeholder, is still there
\* and in the same order; only Change File and a new selection clear it.
C11_UploadReplacesOnlyItsPlaceholder ==
  [][ /\ last'.op = "uploadSettled"
         => IsSubsequence(
              SelectSeq(messages, LAMBDA m : ~IsPlaceholderOf(m, last'.doc)),
              messages')
      /\ last'.op \in {"setInputValue", "handleSendMessage", "chatSettled"}
         => IsSubsequence(messages, messages') ]_vars

\* C12: with chat sent through the controls only, at most one chat request
\* is unresolved at any time, and isLoading is set while one is.
C12_AtMostOneChatInFlight ==
  /\ Cardinality(chats) <= 1
  /\ chats # {} => isLoading

\* C12 witness: a chat request of the first Document is still unresolved
\* after Change File and the selection of a second Document.
C12_Witness ==
  /\ Cardinality(chats) = 1
  /\ file # None
  /\ \E c \in chats : c.doc # file[1].id

C14_OneUploadPerDocument ==
  [][ /\ Len(objectUrls') # Len(objectUrls)
         => /\ file = None
            /\ file' # None
            /\ Len(objectUrls') = Len(objectUrls) + 1
            /\ file'[1] \notin uploads
            /\ uploads' = uploads \cup {file'[1]}
      /\ Len(objectUrls') = Len(objectUrls) => uploads' \subseteq uploads ]_vars

\* C14 witness: two Documents have been selected one after the other and
\* the upload of each is in flight.
C14_Witness ==
  /\ Len(objectUrls) = 2
  /\ file # None
  /\ Cardinality(uploads) = 2
  /\ \A u, v \in uploads : u.id = v.id => u = v

\* C15: every upload request and every accepted chat request is settled at
\* some time (again and again no request is pending); the step that settles
\* it makes one Transcript update (one System outcome entry, resp. one
\* appended Bot entry) and clears its flag, whatever the response; no flag
\* is set once no request is pending.
C15_EveryRequestResolvesAndReleases ==
  /\ [][ /\ last'.op = "uploadSettled"
            => /\ Len(messages') = 1
               /\ messages'[1].type = "system"
               /\ ~ShowsProcessing(messages'[1])
               /\ messages'[1].of = last'.doc
               /\ ~isProcessing'
               /\ \A u \in uploads' : u.id # last'.doc
         /\ last'.op = "chatSettled"
            => /\ Len(messages') = Len(messages) + 1
               /\ SubSeq(messages', 1, Len(messages)) = messages
               /\ messages'[Len(messages')].type = "bot"
               /\ messages'[Len(messages')].req = last'.chat
               /\ ~isLoading'
               /\ \A c \in chats' : c.id # last'.chat ]_vars
  /\ [](uploads = {} => ~isProcessing)
  /\ [](chats = {} => ~isLoading)
  /\ []<>(uploads = {} /\ chats = {})

\* C15 witness: an upload settled with a success status and a body that does
\* not parse; nothing is pending and the flag is clear.
C15_Witness ==
  /\ last.op = "uploadSettled"
  /\ last.uresp = Some([net |-> TRUE, ok |-> TRUE, body |-> NoUploadBody])
  /\ IsError(messages[1])
  /\ uploads = {}
  /\ ~isProcessing

\* C16: in every Transcript the User and Bot entries alternate, each Bot
\* entry comes right after the User entry of the question it answers, and
\* the Bot entries are in the order in which their questions were accepted.
C16_ChatIsFifo ==
  \A i \in 1..Len(messages) :
    /\ messages[i].type = "bot"
         => /\ i > 1
            /\ messages[i - 1].type = "user"
            /\ messages[i - 1].req = messages[i].req
    /\ (messages[i].type = "user" /\ i > 1) => messages[i - 1].type # "user"
    /\ \A j \in 1..Len(messages) :
         (i < j /\ messages[i].type = "bot" /\ messages[j].type = "bot")
           => messages[i].req < messages[j].req

\* C17: isProcessing is true exactly while some upload request is unresolved.
C17_FlagTracksPendingUploads ==
  isProcessing <=> uploads # {}

\* C18: while no Document is selected the Transcript is empty and no object
\* URL is held or live.
C18_EmptySessionIsEmpty ==
  file = None => messages = <<>> /\ fileUrl = None /\ LiveUrls = {}

====
